---- MODULE Spec2Model ----
(***************************************************************************)
(* Model of rust/tw_keypair/src/schnorr/private.rs: the Schnorr            *)
(* (BIP-340 / BIP-341) private key of wallet-core.                         *)
(*                                                                         *)
(* The curve engine (secp256k1, bitcoin::key::TapTweak) is modelled on a   *)
(* scaled-down curve of the same shape, y^2 = x^3 + 7 over F_43, whose     *)
(* group has prime order 31.  A "byte" is a base-4 digit and a scalar, a   *)
(* field element or a hash is KeyLen of them, so that, as on secp256k1,    *)
(* some KeyLen-byte strings are not below the curve order.                 *)
(***************************************************************************)
EXTENDS Integers, Naturals, Sequences, FiniteSets, TLC

(***************************************************************************)
(* Sizes and curve parameters                                              *)
(***************************************************************************)
ByteBase == 4
KeyLen == 3
CurveP == 43
CurveN == 31
CurveB == 7

MaxZeroize == 2

Byte == 0 .. (ByteBase - 1)
SigLen == 2 * KeyLen
MaxSliceLen == KeyLen + 1

RECURSIVE Pow(_, _)
Pow(b, e) == IF e = 0 THEN 1 ELSE b * Pow(b, e - 1)

ByteRange == Pow(ByteBase, KeyLen)

(***************************************************************************)
(* Big-endian byte strings                                                 *)
(***************************************************************************)
RECURSIVE FromBeBytes(_)
FromBeBytes(bytes) ==
    IF Len(bytes) = 0 THEN 0
    ELSE FromBeBytes(SubSeq(bytes, 1, Len(bytes) - 1)) * ByteBase
            + bytes[Len(bytes)]

ToBeBytes(v) ==
    [i \in 1 .. KeyLen |-> (v \div Pow(ByteBase, KeyLen - i)) % ByteBase]

BytesOfLen(l) == [1 .. l -> Byte]

H256 == BytesOfLen(KeyLen)

(***************************************************************************)
(* The curve: points are <<x, y>>, Infinity is the neutral element         *)
(***************************************************************************)
Infinity == <<0, 0>>

ModP(a) == a % CurveP

InvP(a) == CHOOSE i \in 1 .. (CurveP - 1) : (a * i) % CurveP = 1

OnCurve(pt) ==
    ModP(pt[2] * pt[2]) = ModP(pt[1] * pt[1] * pt[1] + CurveB)

PointNeg(pt) ==
    IF pt = Infinity THEN Infinity ELSE <<pt[1], ModP(CurveP - pt[2])>>

PointAdd(p1, p2) ==
    IF p1 = Infinity THEN p2
    ELSE IF p2 = Infinity THEN p1
    ELSE IF p1[1] = p2[1] /\ ModP(p1[2] + p2[2]) = 0 THEN Infinity
    ELSE LET lam == IF p1 = p2
                    THEN ModP(3 * p1[1] * p1[1] * InvP(ModP(2 * p1[2])))
                    ELSE ModP((p2[2] - p1[2] + CurveP)
                              * InvP(ModP(p2[1] - p1[1] + CurveP)))
             x3  == ModP(lam * lam + 2 * CurveP - p1[1] - p2[1])
             y3  == ModP(lam * (p1[1] - x3 + CurveP) + CurveP - p1[2])
         IN  <<x3, y3>>

Generator ==
    LET x == CHOOSE a \in 0 .. (CurveP - 1) :
                 /\ \E b \in 0 .. (CurveP - 1) : OnCurve(<<a, b>>)
                 /\ \A a2 \in 0 .. (a - 1) :
                        \A b \in 0 .. (CurveP - 1) : ~OnCurve(<<a2, b>>)
        y == CHOOSE b \in 0 .. (CurveP - 1) :
                 /\ OnCurve(<<x, b>>)
                 /\ b % 2 = 0
    IN  <<x, y>>

\* <<1*G, 2*G, ..., k*G>>
RECURSIVE Multiples(_)
Multiples(k) ==
    IF k = 0 THEN <<>>
    ELSE LET m == Multiples(k - 1)
         IN  Append(m, PointAdd(IF k = 1 THEN Infinity ELSE m[k - 1],
                                Generator))

GTable == Multiples(CurveN - 1)

\* k*G for a scalar k
GMul == [k \in 0 .. (CurveN - 1) |-> IF k = 0 THEN Infinity ELSE GTable[k]]

HasOddY(pt) == pt[2] % 2 = 1

EvenY(pt) == IF HasOddY(pt) THEN PointNeg(pt) ELSE pt

(***************************************************************************)
(* Tagged hashes (BIP-340 / BIP-341), scaled down: an absorbing hash       *)
(* seeded by its tag, with a KeyLen-byte digest                            *)
(***************************************************************************)
TagSeed(tag) ==
    CASE tag = "TapTweak"          -> 11
      [] tag = "BIP0340/aux"       -> 23
      [] tag = "BIP0340/nonce"     -> 37
      [] tag = "BIP0340/challenge" -> 53

RECURSIVE Absorb(_, _)
Absorb(h, data) ==
    IF Len(data) = 0 THEN h
    ELSE Absorb((h * 5 + Head(data) * 3 + 1) % ByteRange, Tail(data))

TaggedHash(tag, data) == ToBeBytes(Absorb(TagSeed(tag), data))

XorByte(a, b) ==
    (((a % 2) + (b % 2)) % 2) + 2 * (((a \div 2) + (b \div 2)) % 2)

XorBytes(a, b) == [i \in 1 .. KeyLen |-> XorByte(a[i], b[i])]

(***************************************************************************)
(* The curve engine, as private.rs calls it                                *)
(***************************************************************************)
NoKeyPair == [sk |-> 0, pk |-> Infinity]

\* from_seckey_slice without the range check: the value is reduced instead.
KeyPairFromSeckeySliceReducing(data) ==
    IF Len(data) # KeyLen
    THEN [ok |-> FALSE, kp |-> NoKeyPair]
    ELSE LET v == FromBeBytes(data) % CurveN
         IN  IF v = 0
             THEN [ok |-> FALSE, kp |-> NoKeyPair]
             ELSE [ok |-> TRUE, kp |-> [sk |-> v, pk |-> GMul[v]]]

\* secp256k1::KeyPair::from_seckey_slice: the slice must be KeyLen bytes
\* and its value a nonzero scalar below the curve order.
KeyPairFromSeckeySlice(data) ==
    IF Len(data) # KeyLen
    THEN [ok |-> FALSE, kp |-> NoKeyPair]
    ELSE LET v == FromBeBytes(data)
         IN  IF v = 0 \/ v >= CurveN
             THEN [ok |-> FALSE, kp |-> NoKeyPair]
             ELSE [ok |-> TRUE, kp |-> [sk |-> v, pk |-> GMul[v]]]

\* secp256k1::KeyPair::public_key
KeyPairPublicKey(kp) == kp.pk

\* secret_bytes in little-endian order
SecretBytesLittleEndian(kp) ==
    [i \in 1 .. KeyLen |-> ToBeBytes(kp.sk)[KeyLen + 1 - i]]

\* secp256k1::KeyPair::secret_bytes
SecretBytes(kp) == ToBeBytes(kp.sk)

\* secp256k1::KeyPair::non_secure_erase overwrites the key pair with the
\* engine's dummy key pair, whose secret key is the byte 0x01 repeated.
DummyKeyPair ==
    LET v == FromBeBytes([i \in 1 .. KeyLen |-> 1])
    IN  [sk |-> v, pk |-> GMul[v]]

NonSecureErase(kp) == DummyKeyPair

\* bitcoin::hashes::sha256t::Hash::from_slice
HashFromSlice(data) == Len(data) = KeyLen

\* TapTweakHash::from_key_and_tweak: the x coordinate of the internal key,
\* followed by the node hash when there is one (<<>> is None).
TapTweakHash(pk, merkle_root) ==
    TaggedHash("TapTweak", ToBeBytes(pk[1]) \o merkle_root)

\* A tweak that adds to the key as it is and negates the RESULT when its
\* point has odd y.
AddXonlyTweakNegatingResult(kp, t) ==
    LET sk2 == (kp.sk + t) % CurveN
        pk2 == PointAdd(kp.pk, GMul[t])
    IN  IF sk2 = 0
        THEN [ok |-> FALSE, kp |-> NoKeyPair]
        ELSE IF HasOddY(pk2)
             THEN [ok |-> TRUE,
                   kp |-> [sk |-> CurveN - sk2, pk |-> PointNeg(pk2)]]
             ELSE [ok |-> TRUE, kp |-> [sk |-> sk2, pk |-> pk2]]

\* secp256k1_keypair_xonly_tweak_add: the secret key is negated when ITS
\* point has odd y, then the tweak is added to the key and t*G to the point.
AddXonlyTweak(kp, t) ==
    LET d   == IF HasOddY(kp.pk) THEN CurveN - kp.sk ELSE kp.sk
        sk2 == (d + t) % CurveN
        pk2 == PointAdd(EvenY(kp.pk), GMul[t])
    IN  IF sk2 = 0
        THEN [ok |-> FALSE, kp |-> NoKeyPair]
        ELSE [ok |-> TRUE, kp |-> [sk |-> sk2, pk |-> pk2]]

\* bitcoin::key::TapTweak::tap_tweak for a key pair.  ok = FALSE is a panic:
\* TapTweakHash::to_scalar expects the hash to be below the curve order and
\* tap_tweak expects add_xonly_tweak to succeed.
TapTweak(kp, merkle_root) ==
    LET h == FromBeBytes(TapTweakHash(kp.pk, merkle_root))
    IN  IF h >= CurveN
        THEN [ok |-> FALSE, kp |-> NoKeyPair]
        ELSE AddXonlyTweak(kp, h)

\* secp256k1::Message::from_slice accepts exactly KeyLen bytes.
MessageFromSlice(data) == Len(data) = KeyLen

\* secp256k1_nonce_function_bip340 with the auxiliary data aux; signing
\* without auxiliary randomness uses the mask of the all-zero aux.
ZeroAux == [i \in 1 .. KeyLen |-> 0]

NonceBip340(msg, d, pk, aux) ==
    LET masked == XorBytes(ToBeBytes(d), TaggedHash("BIP0340/aux", aux))
    IN  FromBeBytes(TaggedHash("BIP0340/nonce",
                               masked \o ToBeBytes(pk[1]) \o msg)) % CurveN

\* secp256k1_schnorrsig_sign.  ok = FALSE (a zero nonce) is a panic: the
\* engine's wrapper asserts that the call returned 1.
SchnorrSign(msg, kp, aux) ==
    LET d  == IF HasOddY(kp.pk) THEN CurveN - kp.sk ELSE kp.sk
        k0 == NonceBip340(msg, d, kp.pk, aux)
        R  == GMul[k0]
        k  == IF HasOddY(R) THEN CurveN - k0 ELSE k0
        e  == FromBeBytes(TaggedHash("BIP0340/challenge",
                  ToBeBytes(R[1]) \o ToBeBytes(kp.pk[1]) \o msg)) % CurveN
        s  == (k + e * d) % CurveN
    IN  IF k0 = 0
        THEN [ok |-> FALSE, sig |-> <<>>]
        ELSE [ok |-> TRUE, sig |-> ToBeBytes(R[1]) \o ToBeBytes(s)]

\* BIP-340 verification, used to state what a signature is.
SchnorrVerify(msg, pk, sig) ==
    /\ Len(sig) = SigLen
    /\ LET rx == FromBeBytes(SubSeq(sig, 1, KeyLen))
           s  == FromBeBytes(SubSeq(sig, KeyLen + 1, SigLen))
           P  == EvenY(pk)
           e  == FromBeBytes(TaggedHash("BIP0340/challenge",
                     SubSeq(sig, 1, KeyLen) \o ToBeBytes(pk[1]) \o msg))
                        % CurveN
       IN  /\ s < CurveN
           /\ LET R == PointAdd(GMul[s], PointNeg(
                           IF e = 0 THEN Infinity
                           ELSE LET i == CHOOSE j \in 1 .. (CurveN - 1) :
                                             GMul[j] = P
                                IN  GMul[(e * i) % CurveN]))
              IN  R # Infinity /\ ~HasOddY(R) /\ R[1] = rx

\* Signature::from_bytes: a signature is SigLen bytes.
SignatureFromBytes(bytes) ==
    IF Len(bytes) = SigLen
    THEN [ok |-> TRUE, err |-> "", sig |-> bytes]
    ELSE [ok |-> FALSE, err |-> "InvalidSignature", sig |-> <<>>]

\* tw_encoding::hex::decode.  A character is 0 or 1 (a hex digit) or 2 (any
\* character that is no hex digit); two digits make a byte.
HexDigit == 0 .. 1

HexDecode(s) ==
    IF Len(s) % 2 = 1 \/ \E i \in 1 .. Len(s) : s[i] \notin HexDigit
    THEN [ok |-> FALSE, bytes |-> <<>>]
    ELSE [ok |-> TRUE,
          bytes |-> [i \in 1 .. (Len(s) \div 2) |->
                        s[2 * i - 1] * 2 + s[2 * i]]]

(***************************************************************************)
(* PrivateKey                                                              *)
(***************************************************************************)
NoKey == [st |-> "none", key_pair |-> NoKeyPair, no_aux_rand |-> FALSE]

\* TryFrom<&[u8]> for PrivateKey
TryFromBytes(value) ==
    LET r == KeyPairFromSeckeySlice(value)
    IN  IF ~r.ok
        THEN [ok |-> FALSE, err |-> "InvalidSecretKey", key |-> NoKey]
        ELSE [ok |-> TRUE, err |-> "",
              key |-> [st |-> "live", key_pair |-> r.kp,
                       no_aux_rand |-> FALSE]]

\* TryFrom<&str> for PrivateKey
TryFromStr(s) ==
    LET d == HexDecode(s)
    IN  IF ~d.ok
        THEN [ok |-> FALSE, err |-> "InvalidPublicKey", key |-> NoKey]
        ELSE TryFromBytes(d.bytes)

\* PrivateKey::public
PublicOf(self) == KeyPairPublicKey(self.key_pair)

\* PrivateKey::tweak, the value it returns (ok = FALSE: it panicked)
TweakedKeyFlagReset(self, kp) ==
    [st |-> "live", key_pair |-> kp, no_aux_rand |-> FALSE]

TweakedKey(self, kp) ==
    [st |-> "live", key_pair |-> kp, no_aux_rand |-> self.no_aux_rand]

TweakOf(self, tweak) ==
    IF tweak # <<>> /\ ~HashFromSlice(tweak)
    THEN [ok |-> FALSE, key |-> NoKey]
    ELSE LET tweaked == TapTweak(self.key_pair, tweak)
         IN  IF ~tweaked.ok
             THEN [ok |-> FALSE, key |-> NoKey]
             ELSE [ok |-> TRUE, key |-> TweakedKey(self, tweaked.kp)]

\* PrivateKey::no_aux_rand
NoAuxRandOf(self) == [self EXCEPT !.no_aux_rand = TRUE]

\* Zeroize for PrivateKey
ZeroizeOf(self) == [self EXCEPT !.key_pair = NonSecureErase(self.key_pair)]

\* The auxiliary data sign hands to the engine: none (the all-zero mask)
\* without auxiliary randomness, else fresh bytes of the randomness source.
SignAuxAlwaysRandom(self, rnd) == rnd

SignAux(self, rnd) == IF self.no_aux_rand THEN ZeroAux ELSE rnd

\* SigningKeyTrait::sign (panic = TRUE: the call did not return)
SignOf(self, message, rnd) ==
    IF ~MessageFromSlice(message)
    THEN [panic |-> TRUE, ok |-> FALSE, err |-> "", sig |-> <<>>]
    ELSE LET r == SchnorrSign(message, self.key_pair, SignAux(self, rnd))
         IN  IF ~r.ok
             THEN [panic |-> TRUE, ok |-> FALSE, err |-> "", sig |-> <<>>]
             ELSE LET sg == SignatureFromBytes(r.sig)
                  IN  [panic |-> FALSE, ok |-> sg.ok, err |-> sg.err,
                       sig |-> sg.sig]

\* ToBytesZeroizing::to_zeroizing_vec
ToZeroizingVec(self) == SecretBytes(self.key_pair)

(***************************************************************************)
(* Inputs                                                                  *)
(***************************************************************************)
Messages == {ZeroAux, [i \in 1 .. KeyLen |-> i % ByteBase]}

\* Every slice of up to KeyLen bytes, and some of KeyLen + 1
Slices ==
    UNION {BytesOfLen(l) : l \in 0 .. KeyLen}
        \cup {<<0>> \o b : b \in Messages}
        \cup {b \o <<0>> : b \in Messages}

\* Every digit string of 2 * KeyLen - 2 to 2 * KeyLen characters, some longer
\* ones, and some with a character that is no hex digit
HexStrings ==
    UNION {[1 .. l -> HexDigit] : l \in (2 * KeyLen - 2) .. (2 * KeyLen)}
        \cup {[h EXCEPT ![i] = 2] :
                 h \in {[j \in 1 .. (2 * KeyLen) |-> 0],
                        [j \in 1 .. (2 * KeyLen) |-> j % 2]},
                 i \in 1 .. (2 * KeyLen)}
        \cup {<<0, 0>> \o [j \in 1 .. (2 * KeyLen) |-> j % 2], <<2>>}

NodeHashes == {<<>>, ZeroAux, [i \in 1 .. KeyLen |-> ByteBase - 1]}

AuxRands == {ZeroAux, [i \in 1 .. KeyLen |-> 1]}

(***************************************************************************)
(* State                                                                   *)
(***************************************************************************)
VARIABLES
    key,          \* the PrivateKey the caller owns, or NoKey
    status,       \* "running", or "panicked" once a call has panicked
    erasures,     \* how often the storage of key has been erased
    origin,       \* the bytes key was constructed from, while it holds them
    aux_applied,  \* no_aux_rand was applied to key or to a predecessor
    res,          \* the last call and what it returned
    memo          \* one earlier signature made without auxiliary randomness

vars == <<key, status, erasures, origin, aux_applied, res, memo>>

NoRes ==
    [op |-> "none", ok |-> TRUE, err |-> "", input |-> <<>>, out |-> <<>>,
     pt |-> Infinity, prev |-> NoKeyPair, det |-> FALSE,
     released |-> 0, mem |-> NoKeyPair]

NoMemo == [set |-> FALSE, sk |-> 0, msg |-> <<>>, sig |-> <<>>]

Init ==
    /\ key = NoKey
    /\ status = "running"
    /\ erasures = 0
    /\ origin = <<>>
    /\ aux_applied = FALSE
    /\ res = NoRes
    /\ memo = NoMemo

\* Drop for PrivateKey: zeroize, then the storage is released.  The result
\* is the number of erasures the storage has seen and what it holds.
DropOf(self, n) ==
    [released |-> n + 1, mem |-> ZeroizeOf(self).key_pair]

Construct(r, op, input, bytes) ==
    /\ key' = r.key
    /\ erasures' = 0
    /\ origin' = (IF r.ok THEN bytes ELSE <<>>)
    /\ aux_applied' = FALSE
    /\ res' = [NoRes EXCEPT !.op = op, !.ok = r.ok, !.err = r.err,
                            !.input = input]
    /\ UNCHANGED <<status, memo>>

\* PrivateKey::try_from(&[u8])
FromBytes ==
    /\ status = "running" /\ key.st = "none"
    /\ \E value \in Slices :
           Construct(TryFromBytes(value), "try_from_bytes", value, value)

\* PrivateKey::try_from(&str)
FromStr ==
    /\ status = "running" /\ key.st = "none"
    /\ \E s \in HexStrings :
           Construct(TryFromStr(s), "try_from_str", s, HexDecode(s).bytes)

\* key.public()
Public ==
    /\ status = "running" /\ key.st = "live"
    /\ res' = [NoRes EXCEPT !.op = "public", !.pt = PublicOf(key)]
    /\ UNCHANGED <<key, status, erasures, origin, aux_applied, memo>>

\* key = key.tweak(tweak).  tweak owns self and drops it when it returns;
\* when it panics, self is dropped if the build unwinds and is not if the
\* build aborts on panic.
Tweak ==
    /\ status = "running" /\ key.st = "live"
    /\ \E tweak \in NodeHashes, unwinds \in BOOLEAN :
           LET r == TweakOf(key, tweak)
               d == DropOf(key, erasures)
           IN  IF r.ok
               THEN /\ key' = r.key
                    /\ erasures' = 0
                    /\ origin' = <<>>
                    /\ res' = [NoRes EXCEPT !.op = "tweak", !.input = tweak,
                                            !.prev = key.key_pair,
                                            !.released = d.released,
                                            !.mem = d.mem]
                    /\ UNCHANGED <<status, aux_applied, memo>>
               ELSE /\ status' = "panicked"
                    /\ IF unwinds
                       THEN /\ key' = NoKey
                            /\ erasures' = 0
                            /\ origin' = <<>>
                            /\ aux_applied' = FALSE
                            /\ res' = [NoRes EXCEPT !.op = "tweak",
                                           !.ok = FALSE, !.input = tweak,
                                           !.prev = key.key_pair,
                                           !.released = d.released,
                                           !.mem = d.mem]
                       ELSE /\ res' = [NoRes EXCEPT !.op = "tweak",
                                           !.ok = FALSE, !.input = tweak,
                                           !.prev = key.key_pair]
                            /\ UNCHANGED <<key, erasures, origin,
                                           aux_applied>>
                    /\ UNCHANGED memo

\* key = key.no_aux_rand()
NoAuxRand ==
    /\ status = "running" /\ key.st = "live"
    /\ key' = NoAuxRandOf(key)
    /\ aux_applied' = TRUE
    /\ res' = [NoRes EXCEPT !.op = "no_aux_rand"]
    /\ UNCHANGED <<status, erasures, origin, memo>>

\* key.zeroize(), called through the Zeroize trait
Zeroize ==
    /\ status = "running" /\ key.st = "live"
    /\ erasures < MaxZeroize
    /\ key' = ZeroizeOf(key)
    /\ erasures' = erasures + 1
    /\ origin' = <<>>
    /\ res' = [NoRes EXCEPT !.op = "zeroize"]
    /\ UNCHANGED <<status, aux_applied, memo>>

\* key.sign(message); rnd is what the randomness source yields.  A
\* signature made without auxiliary randomness may be remembered in memo.
Sign ==
    /\ status = "running" /\ key.st = "live"
    /\ \E message \in Messages, rnd \in AuxRands, remember \in BOOLEAN :
           LET r == SignOf(key, message, rnd)
           IN  /\ status' = (IF r.panic THEN "panicked" ELSE "running")
               /\ res' = [NoRes EXCEPT !.op = "sign", !.ok = r.ok,
                                       !.err = r.err, !.input = message,
                                       !.out = r.sig,
                                       !.prev = key.key_pair,
                                       !.det = key.no_aux_rand]
               /\ memo' = (IF remember /\ r.ok /\ key.no_aux_rand
                           THEN [set |-> TRUE, sk |-> key.key_pair.sk,
                                 msg |-> message, sig |-> r.sig]
                           ELSE memo)
               /\ UNCHANGED <<key, erasures, origin, aux_applied>>

\* key.to_zeroizing_vec()
Export ==
    /\ status = "running" /\ key.st = "live"
    /\ res' = [NoRes EXCEPT !.op = "to_zeroizing_vec",
                            !.out = ToZeroizingVec(key)]
    /\ UNCHANGED <<key, status, erasures, origin, aux_applied, memo>>

\* key goes out of scope
DropKey ==
    /\ status = "running" /\ key.st = "live"
    /\ LET d == DropOf(key, erasures)
       IN  res' = [NoRes EXCEPT !.op = "drop", !.released = d.released,
                                !.mem = d.mem]
    /\ key' = NoKey
    /\ erasures' = 0
    /\ origin' = <<>>
    /\ aux_applied' = FALSE
    /\ UNCHANGED <<status, memo>>

Next ==
    \/ FromBytes
    \/ FromStr
    \/ Public
    \/ Tweak
    \/ NoAuxRand
    \/ Zeroize
    \/ Sign
    \/ Export
    \/ DropKey

Spec == Init /\ [][Next]_vars

TypeOK ==
    /\ key.st \in {"none", "live"}
    /\ status \in {"running", "panicked"}
    /\ key.st = "live" =>
           /\ key.key_pair.sk \in 1 .. (CurveN - 1)
           /\ key.key_pair.pk = GMul[key.key_pair.sk]
           /\ OnCurve(key.key_pair.pk)

\* Every signature sign returns verifies under the key's public key.
SignaturesVerify ==
    (res.op = "sign" /\ res.ok) =>
        SchnorrVerify(res.input, res.prev.pk, res.out)

(***************************************************************************)
(* Claims                                                                  *)
(***************************************************************************)

\* C1: constructing from a byte slice succeeds if and only if the slice is
\* exactly KeyLen bytes whose big-endian value lies in [1, n-1]; for every
\* other input it fails with InvalidSecretKey and no key is produced.
C1_TryFromBytesValidates ==
    res.op = "try_from_bytes" =>
        /\ res.ok <=> /\ Len(res.input) = KeyLen
                      /\ FromBeBytes(res.input) \in 1 .. (CurveN - 1)
        /\ res.ok => key.st = "live" /\ res.err = ""
        /\ ~res.ok => key.st = "none" /\ res.err = "InvalidSecretKey"

C1_Witness ==
    /\ res.op = "try_from_bytes"
    /\ ~res.ok
    /\ Len(res.input) = KeyLen
    /\ FromBeBytes(res.input) >= CurveN

\* C2: a key constructed from the bytes s holds the scalar s and exports
\* exactly s, also after sign, public, to_zeroizing_vec and no_aux_rand.
C2_RoundTrip ==
    origin # <<>> =>
        /\ key.st = "live"
        /\ key.key_pair.sk = FromBeBytes(origin)
        /\ res.op = "to_zeroizing_vec" => res.out = origin

C2_Witness ==
    /\ res.op = "to_zeroizing_vec"
    /\ origin # <<>>
    /\ res.out = origin
    /\ key.no_aux_rand
    /\ memo.set /\ memo.sk = key.key_pair.sk

\* C3: whenever the storage of a PrivateKey is released, it has been erased
\* exactly once.
C3_ReleasedErasedExactlyOnce ==
    res.released # 0 => res.released = 1

\* C4: every PrivateKey the caller can operate on holds a valid nonzero
\* scalar, and none is left usable with an erased scalar.
C4_UsableKeyHoldsItsScalar ==
    key.st = "live" =>
        /\ key.key_pair.sk \in 1 .. (CurveN - 1)
        /\ erasures = 0

\* C5: sign never aborts the process: it returns a signature or a typed
\* error.
C5_SignNeverPanics ==
    res.op = "sign" => status = "running"

\* The engine reports a degeneracy: the tweaked scalar is 0 mod n.
TweakIsDegenerate(kp, tweak) ==
    LET t == FromBeBytes(TapTweakHash(kp.pk, tweak))
    IN  t < CurveN /\ ~AddXonlyTweak(kp, t).ok

\* C6: tweak never aborts the process: when the engine reports a tweak
\* degeneracy, tweak returns to its caller (with a typed error).
C6_TweakNeverPanics ==
    (res.op = "tweak" /\ TweakIsDegenerate(res.prev, res.input))
        => status = "running"

\* C7: constructing from a hex string that does not decode fails with an
\* error kind that is neither InvalidSecretKey nor InvalidPublicKey; from one
\* that decodes, the outcome is that of constructing from the decoded bytes.
C7_HexErrorIsDistinct ==
    res.op = "try_from_str" =>
        IF HexDecode(res.input).ok
        THEN /\ res.ok = TryFromBytes(HexDecode(res.input).bytes).ok
             /\ res.err = TryFromBytes(HexDecode(res.input).bytes).err
        ELSE /\ ~res.ok
             /\ res.err \notin {"InvalidSecretKey", "InvalidPublicKey"}

\* C8: two sign calls without auxiliary randomness, with the same scalar and
\* the same message, return the same signature.
C8_DeterministicSigning ==
    (/\ res.op = "sign" /\ res.ok /\ res.det
     /\ memo.set /\ memo.sk = res.prev.sk /\ memo.msg = res.input)
        => res.out = memo.sig

C8_Witness ==
    /\ res.op = "sign" /\ res.ok /\ res.det
    /\ memo.set /\ memo.sk = res.prev.sk /\ memo.msg = res.input
    /\ res.out = memo.sig
    /\ origin = <<>>

\* C9, as claimed: the public key of a tweak result has an even y.
C9_TweakedKeyHasEvenY ==
    (res.op = "tweak" /\ res.ok) => ~HasOddY(PublicOf(key))

\* C9, amended: the tweak result's scalar is (d + t) mod n, where d is the
\* old scalar negated when the PRE-tweak point has odd y and t is the
\* TapTweak hash; its public key is (d + t)*G and is not negated.
C9_TweakAddsToEvenKey ==
    (res.op = "tweak" /\ res.ok) =>
        LET d == CHOOSE x \in {res.prev.sk, CurveN - res.prev.sk} :
                     ~HasOddY(GMul[x])
            t == FromBeBytes(TapTweakHash(res.prev.pk, res.input))
        IN  /\ key.key_pair.sk = (d + t) % CurveN
            /\ PublicOf(key) = GMul[(d + t) % CurveN]

C9_Witness ==
    /\ res.op = "tweak" /\ res.ok
    /\ HasOddY(res.prev.pk)
    /\ HasOddY(PublicOf(key))

\* C10: a constructed key has the flag off, and the flag of a key is on if
\* and only if no_aux_rand was applied to it or to a predecessor it was
\* derived from through tweak.
C10_FlagIsConfiguration ==
    /\ key.st = "live" => (key.no_aux_rand <=> aux_applied)
    /\ (res.op \in {"try_from_bytes", "try_from_str"} /\ res.ok)
           => ~key.no_aux_rand

C10_Witness ==
    /\ res.op = "tweak" /\ res.ok
    /\ key.no_aux_rand
    /\ aux_applied

====
